---- MODULE Spec2Model ----
(***************************************************************************)
(* tweettemp451: a trio pipeline of six tasks joined by zero-buffer        *)
(* memory channels.                                                        *)
(*                                                                         *)
(*   observe_twitter_sample_stream -> extract_time_and_coordinates         *)
(*     -> get_temperature -> write_data (temperature file)                 *)
(*                        -> compute_sliding_average -> write_data         *)
(*                                                    (average file)       *)
(*                                                                         *)
(* Three specifications share the definitions below:                       *)
(*   Spec         the whole pipeline under one nursery (main.py);          *)
(*   SpecAverage  compute_sliding_average alone, fed by an arbitrary       *)
(*                producer;                                                *)
(*   SpecExtract  extract_time_and_coordinates alone, fed arbitrary raw    *)
(*                records.                                                 *)
(*                                                                         *)
(* Units.  Temperatures are integers (any fixed decimal scale).  An        *)
(* average is the quotient total/count as a fraction in lowest terms,      *)
(* marked as rounded when its decimal expansion does not end.              *)
(* Geographic input values are integers in half degrees;                   *)
(* a Coordinates value is held in quarter degrees, so that the midpoint    *)
(* (a + b) / 2.0 of two inputs is the integer a + b and a point value c    *)
(* is 2 * c.                                                               *)
(***************************************************************************)
EXTENDS Integers, Sequences, FiniteSets, TLC

\* ------------------------------------------------------------------------
\* Bounds of the model
\* ------------------------------------------------------------------------

\* largest --window-size explored (the program allows 2..100)
MaxWindow == 3

\* number of values fed to compute_sliding_average in SpecAverage
MaxInputs == 6

\* number of lines the stream yields in Spec
MaxRecords == 2

\* ------------------------------------------------------------------------
\* Program constants
\* ------------------------------------------------------------------------

\* parse_args: choices=range(2, 101)
MinWindow == 2

\* tenacity.stop_after_attempt(5)
MaxAttempts == 5

\* ErrorCodes.NO_MATCHING_LOCATION
NO_MATCHING_LOCATION == 1006

\* httpx.codes.BAD_REQUEST
BAD_REQUEST == 400

\* ------------------------------------------------------------------------
\* Arithmetic helpers
\* ------------------------------------------------------------------------

Abs(n) == IF n < 0 THEN -n ELSE n

RECURSIVE GCD(_, _)
GCD(a, b) == IF b = 0 THEN a ELSE GCD(b, a % b)

RECURSIVE SumSeq(_)
SumSeq(s) == IF s = <<>> THEN 0 ELSE Head(s) + SumSeq(Tail(s))

\* the last n elements of s (all of s when it is shorter)
LastN(s, n) == IF Len(s) <= n THEN s ELSE SubSeq(s, Len(s) - n + 1, Len(s))

Min(a, b) == IF a < b THEN a ELSE b

\* the exact quotient n / d (d > 0) as a fraction in lowest terms
Fraction(n, d) ==
    LET g == GCD(Abs(n), d)
    IN  [num |-> n \div g, den |-> d \div g]

\* ------------------------------------------------------------------------
\* Sliding average (pipeline.py, compute_sliding_average)
\* ------------------------------------------------------------------------

\* lines 88-91: buffer = [Decimal(0)] * window_size, count = 0, current = 0,
\* total = 0.  buffer is indexed from 0 in the program, from 1 here.
InitialWindow(size) ==
    [buffer |-> [i \in 1..size |-> 0], count |-> 0, current |-> 0, total |-> 0]

\* a plausible slip: the evicted value is never subtracted
SlidingUpdateNoEvict(w, size, temperature) ==
    [buffer  |-> [w.buffer EXCEPT ![w.current + 1] = temperature],
     count   |-> IF w.count # size THEN w.count + 1 ELSE w.count,
     current |-> (w.current + 1) % size,
     total   |-> w.total + temperature]

\* lines 94-100: one pass of the loop body up to the division
SlidingUpdate(w, size, temperature) ==
    LET evicted == IF w.count = size THEN w.buffer[w.current + 1] ELSE 0
    IN  [buffer  |-> [w.buffer EXCEPT ![w.current + 1] = temperature],
         count   |-> IF w.count # size THEN w.count + 1 ELSE w.count,
         current |-> (w.current + 1) % size,
         total   |-> (w.total - evicted) + temperature]

\* d without its factors 2 and 5: 1 exactly when a fraction of denominator d
\* has a finite decimal expansion
RECURSIVE Without2And5(_)
Without2And5(d) ==
    IF d % 2 = 0 THEN Without2And5(d \div 2)
    ELSE IF d % 5 = 0 THEN Without2And5(d \div 5)
    ELSE d

\* decimal.Decimal division: the quotient n / d, which the decimal context
\* rounds to its precision when the expansion does not end.  The values of
\* the model are short, so an expansion that ends fits the precision.
DecimalQuotient(n, d) ==
    LET q == Fraction(n, d)
    IN  [num |-> q.num, den |-> q.den, rounded |-> Without2And5(q.den) # 1]

\* a plausible slip: dividing by the capacity instead of the count
AverageOverCapacity(w, size) == DecimalQuotient(w.total, size)

\* line 101: average = total / count
Average(w, size) == DecimalQuotient(w.total, w.count)

\* ------------------------------------------------------------------------
\* Raw records and feature extraction (twitter.py, TweetTransformer)
\* ------------------------------------------------------------------------
\* A decoded JSON scalar is [t, v]: a number, a string that float() accepts,
\* any other string, or null.
Num(n)    == [t |-> "num", v |-> n]
NumStr(n) == [t |-> "numstr", v |-> n]
Str       == [t |-> "str", v |-> 0]
Null      == [t |-> "null", v |-> 0]

\* A JSON member that the code expects to be a list: absent, a list, (for
\* geo.coordinates) a dict whose own 'coordinates' member is the list, or
\* something else that is truthy.
Absent       == [kind |-> "absent", vals |-> <<>>]
List(vals)   == [kind |-> "list", vals |-> vals]
Nested(vals) == [kind |-> "nested", vals |-> vals]
Other        == [kind |-> "other", vals |-> <<>>]

\* A geo member: absent or falsy, a truthy non-dict, or a dict.
NoGeo == [kind |-> "absent", coordinates |-> Absent, bbox |-> Absent]
BadGeo == [kind |-> "nondict", coordinates |-> Absent, bbox |-> Absent]
Geo(c, b) == [kind |-> "dict", coordinates |-> c, bbox |-> b]

\* data.py, Coordinates(longitude=..., latitude=...): quarter degrees
Coordinates(longitude, latitude) ==
    [kind |-> "coords", longitude |-> longitude, latitude |-> latitude]
\* None
Nothing == [kind |-> "none", longitude |-> 0, latitude |-> 0]
\* an exception that no handler of the extractor catches
Uncaught == [kind |-> "error", longitude |-> 0, latitude |-> 0]

\* float(x) succeeds for numbers and numeric strings; it raises ValueError
\* for other strings and TypeError for None, both caught at line 62.
FloatOk(x) == x.t \in {"num", "numstr"}

\* lines 56-65: the explicit point
Point(c) ==
    IF c.kind \in {"list", "nested"} /\ Len(c.vals) \in {2, 3}
       /\ FloatOk(c.vals[1]) /\ FloatOk(c.vals[2])
    THEN Coordinates(2 * c.vals[1].v, 2 * c.vals[2].v)
    ELSE Nothing

\* lines 67-75: the bounding box.  (bbox[0] + bbox[2]) / 2.0 raises TypeError
\* unless both operands are numbers (two strings concatenate and the division
\* raises); the handler at line 72 then reads the unbound name ex, and the
\* resulting UnboundLocalError is caught nowhere.
BBox(b) ==
    IF b.kind = "list" /\ Len(b.vals) \in {4, 6}
    THEN IF \A i \in 1..4 : b.vals[i].t = "num"
         THEN Coordinates(b.vals[1].v + b.vals[3].v, b.vals[2].v + b.vals[4].v)
         ELSE Uncaught
    ELSE Nothing

\* lines 51-77: extract_coordinates_from_geo.  geo.get on a truthy non-dict
\* raises AttributeError.
extract_coordinates_from_geo(geo) ==
    CASE geo.kind = "absent"  -> Nothing
      [] geo.kind = "nondict" -> Uncaught
      [] OTHER ->
           IF Point(geo.coordinates).kind = "coords"
           THEN Point(geo.coordinates)
           ELSE BBox(geo.bbox)

\* line 86: next((x for x in map(extract_coordinates_from_geo, geos) if x),
\* None): the geos are tried in order and the first exception ends the search
RECURSIVE FirstResolved(_)
FirstResolved(geos) ==
    IF geos = <<>> THEN Nothing
    ELSE LET r == extract_coordinates_from_geo(Head(geos))
         IN  IF r.kind = "none" THEN FirstResolved(Tail(geos)) ELSE r

\* The includes member: absent, a non-dict (None.get raises AttributeError),
\* or a dict with a list of places; a place is a dict with a geo member or a
\* non-dict (x.get raises AttributeError).
NoIncludes == [kind |-> "absent", places |-> <<>>]
BadIncludes == [kind |-> "nondict", places |-> <<>>]
Includes(places) == [kind |-> "dict", places |-> places]
Place(geo) == [kind |-> "dict", geo |-> geo]
BadPlace == [kind |-> "nondict", geo |-> NoGeo]

\* line 85: the geo members of the places that are truthy
RECURSIVE TruthyGeos(_)
TruthyGeos(places) ==
    IF places = <<>> THEN <<>>
    ELSE (IF Head(places).geo.kind = "absent" THEN <<>> ELSE <<Head(places).geo>>)
         \o TruthyGeos(Tail(places))

\* lines 79-87: get_coordinates, for a tweet whose data member is a dict
get_coordinates(tweet) ==
    LET coordinates == extract_coordinates_from_geo(tweet.data.geo)
    IN  IF coordinates.kind # "none" THEN coordinates
        ELSE CASE tweet.includes.kind = "absent"  -> Nothing
               [] tweet.includes.kind = "nondict" -> Uncaught
               [] OTHER ->
                    IF \E i \in 1..Len(tweet.includes.places) :
                          tweet.includes.places[i].kind = "nondict"
                    THEN Uncaught
                    ELSE FirstResolved(TruthyGeos(tweet.includes.places))

\* The data member: absent, a non-dict, or a dict with created_at and geo.
\* created_at is absent, a non-string, a string isoparse rejects, or an
\* ISO-8601 string (ts identifies the instant).
NoCreatedAt == [kind |-> "absent", ts |-> 0]
NonStringCreatedAt == [kind |-> "nonstring", ts |-> 0]
BadCreatedAt == [kind |-> "unparsable", ts |-> 0]
CreatedAt(ts) == [kind |-> "iso", ts |-> ts]
NoData == [kind |-> "absent", created_at |-> NoCreatedAt, geo |-> NoGeo]
BadData == [kind |-> "nondict", created_at |-> NoCreatedAt, geo |-> NoGeo]
Data(created_at, geo) == [kind |-> "dict", created_at |-> created_at, geo |-> geo]

\* A line of the stream: not JSON, JSON that is not an object, or an object.
Garbage == [json |-> "garbage", data |-> NoData, includes |-> NoIncludes]
NonObject == [json |-> "nonobject", data |-> NoData, includes |-> NoIncludes]
Tweet(data, includes) == [json |-> "object", data |-> data, includes |-> includes]

\* lines 90-100: parse_tweet returns the dict or None
parse_tweet(tweet_json) == tweet_json.json = "object"

\* lines 103-114: get_timestamp.  tweet.get('data', {}).get raises
\* AttributeError when data is not a dict; isoparse raises a plain ValueError,
\* which the except clause (ParserError, UnknownTimezoneWarning,
\* OverflowError) does not catch.
get_timestamp(tweet) ==
    CASE tweet.data.kind = "nondict" -> "error"
      [] tweet.data.kind = "absent" -> "none"
      [] tweet.data.created_at.kind \in {"absent", "nonstring"} -> "none"
      [] tweet.data.created_at.kind = "unparsable" -> "error"
      [] OTHER -> "timestamp"

\* pipeline.py lines 45-61: one pass of the extractor's loop body, up to the
\* send: what it sends (kind "coords", with the timestamp), or that it
\* continues with the next record ("none"), or that an exception leaves the
\* loop ("error")
Extract(tweet_json) ==
    IF ~parse_tweet(tweet_json) THEN [kind |-> "none", ts |-> 0, coordinates |-> Nothing]
    ELSE CASE get_timestamp(tweet_json) = "error" ->
                [kind |-> "error", ts |-> 0, coordinates |-> Nothing]
           [] get_timestamp(tweet_json) = "none" ->
                [kind |-> "none", ts |-> 0, coordinates |-> Nothing]
           [] OTHER ->
                LET coordinates == get_coordinates(tweet_json)
                IN  IF coordinates.kind = "coords"
                    THEN [kind |-> "coords", ts |-> tweet_json.data.created_at.ts,
                          coordinates |-> coordinates]
                    ELSE [kind |-> coordinates.kind, ts |-> 0, coordinates |-> Nothing]

\* ------------------------------------------------------------------------
\* Weather lookup (weather.py, WeatherClient)
\* ------------------------------------------------------------------------
\* A response is [status, body, code, temp]: body says what response.json()
\* gives ("garbage": not JSON; "nonobject": JSON that is no object; "error":
\* an object with an error member carrying code; "weather": an object with
\* current.temp_f; "badcurrent": an object whose current member is no
\* object), temp is the temp_f member as a decoded scalar, where "dec" is a
\* JSON number with a fraction or exponent (parse_float makes it a Decimal),
\* "int" a JSON number without one (a Python int), "numstr" a string that
\* Decimal() accepts, "str" one it does not, "other" true, a list or an
\* object, and "absent" a missing or null member.
Response(status, body, code, temp) ==
    [status |-> status, body |-> body, code |-> code, temp |-> temp]
Dec(v) == [t |-> "dec", v |-> v]
PyInt(v) == [t |-> "int", v |-> v]
NoTemp == [t |-> "absent", v |-> 0]
ErrorResponse(status, code) == Response(status, "error", code, NoTemp)
WeatherResponse(temp) == Response(200, "weather", 0, temp)

\* a plausible slip: the error code is read from the wrong place and never
\* found
should_ignore_error_no_code(response) ==
    IF response.status = BAD_REQUEST /\ response.body = "nonobject"
    THEN "AttributeError"
    ELSE "proceed"

\* lines 73-85: should_ignore_error.  "ignore" is True, "proceed" is False;
\* response.json().get raises AttributeError when the body is JSON but no
\* object, and only JSONDecodeError is caught.
should_ignore_error(response) ==
    IF response.status = BAD_REQUEST
    THEN CASE response.body = "nonobject" -> "AttributeError"
           [] response.body = "error" /\ response.code = NO_MATCHING_LOCATION -> "ignore"
           [] OTHER -> "proceed"
    ELSE "proceed"

\* httpx Response.raise_for_status: raises HTTPStatusError unless 2xx
is_success(status) == status \div 100 = 2

\* lines 44-70: the temperature of a successful response, or None
\* ([some |-> FALSE]).  An int is neither a Decimal nor a str.
temperature_of(response) ==
    IF response.body = "weather" /\ response.temp.t \in {"dec", "numstr"}
    THEN [some |-> TRUE, value |-> response.temp.v]
    ELSE [some |-> FALSE, value |-> 0]

\* lines 38-70: the body of get_current_temperature_for_coordinates for one
\* response: what it returns or raises
handle_response(response) ==
    CASE should_ignore_error(response) = "AttributeError" ->
            [kind |-> "raise", exception |-> "AttributeError", value |-> 0]
      [] should_ignore_error(response) = "ignore" ->
            [kind |-> "none", exception |-> "none", value |-> 0]
      [] ~is_success(response.status) ->
            [kind |-> "raise", exception |-> "HTTPStatusError", value |-> 0]
      [] response.body = "badcurrent" ->
            \* line 54: .get('temp_f') on a current member that is no object
            [kind |-> "raise", exception |-> "AttributeError", value |-> 0]
      [] OTHER ->
            IF temperature_of(response).some
            THEN [kind |-> "temperature", exception |-> "none",
                  value |-> temperature_of(response).value]
            ELSE [kind |-> "none", exception |-> "none", value |-> 0]

\* a plausible slip: every exception is retried
retry_if_any_exception(exception) == TRUE

\* line 34: retry=tenacity.retry_if_exception_type(httpx.TransportError)
retry_if_exception_type(exception) == exception = "TransportError"

\* a plausible slip: one attempt counter shared by all calls
shared_attempt_number(previous) == previous

\* lines 31-36: each call of the decorated coroutine gets a retry state of its
\* own, whatever an earlier call counted
new_attempt_number(previous) == 0

\* line 33: stop=tenacity.stop_after_attempt(5)
stop_after_attempt(attempt_number) == attempt_number >= MaxAttempts

\* ------------------------------------------------------------------------
\* The pipeline (main.py, async_main; pipeline.py)
\* ------------------------------------------------------------------------

VARIABLES
    window_size,   \* --window-size
    pc,            \* where each task is
    exc,           \* the exception that left each task's body ("none": none)
    unwind,        \* what each task's context managers have still to close
    closed,        \* the channel ends, files and streams closed so far
    cancelled,     \* the nursery's cancel scope is cancelled
    interrupted,   \* KeyboardInterrupt was raised in async_main
    mainPc,        \* where async_main is
    clientCloses,  \* number of aclose() calls on each client
    stream,        \* source: attempts, connections, failures, lines yielded and sent
    line,          \* source: the line it is sending
    extraction,    \* extractor: the last line it took and what became of it
    location,      \* extractor: the (timestamp, coordinates) it is sending
    lookup,        \* resolver: the lookup in progress or last made
    noLocation,    \* the lookups answered with the no-matching-location code
    datum,         \* resolver: the (timestamp, temperature) it is sending
    window,        \* averager: buffer, count, current, total
    average,       \* averager: the (timestamp, average) it is sending
    received,      \* each sink: the record it is writing
    file,          \* each sink: the lines of its file
    rawIn,         \* records the temperature sink has received
    avgIn,         \* records the averager has received
    avgOut,        \* records the average sink has received
    failedSends,   \* the tasks whose send raised BrokenResourceError
    discarded      \* how many records the stages have skipped and gone on

vars == <<window_size, pc, exc, unwind, closed, cancelled, interrupted, mainPc,
          clientCloses, stream, line, extraction, location, lookup, noLocation, datum, window,
          average, received, file, rawIn, avgIn, avgOut, failedSends,
          discarded>>

Source == "source"                \* observe_twitter_sample_stream
Extractor == "extractor"          \* extract_time_and_coordinates
Resolver == "resolver"            \* get_temperature
TemperatureSink == "temperature_sink"   \* write_data(receive_temperature_to_file, ...)
Averager == "averager"            \* compute_sliding_average
AverageSink == "average_sink"     \* write_data(receive_average, ...)

Tasks == {Source, Extractor, Resolver, TemperatureSink, Averager, AverageSink}
Sinks == {TemperatureSink, AverageSink}
Clients == {"twitter_client", "weather_client"}

\* the ends of the five memory channels, the two files and the HTTP stream
SendEnd(channel) == [kind |-> "send", of |-> channel]
ReceiveEnd(channel) == [kind |-> "receive", of |-> channel]
File(sink) == [kind |-> "file", of |-> sink]
HttpStream == [kind |-> "stream", of |-> "twitter"]

\* the channel a task receives from
Input(t) ==
    CASE t = Extractor -> "tweet"
      [] t = Resolver -> "location"
      [] t = TemperatureSink -> "temperature_to_file"
      [] t = Averager -> "temperature_to_average"
      [] t = AverageSink -> "average"

\* the channel a task is sending on, given where it is
Output(t, at) ==
    CASE t = Source -> "tweet"
      [] t = Extractor -> "location"
      [] t = Resolver /\ at = "send_to_file" -> "temperature_to_file"
      [] t = Resolver -> "temperature_to_average"
      [] t = Averager -> "average"

\* what the async with statement of each task closes when the body is left,
\* in the order it closes it (the last one entered first)
ContextManagers(t) ==
    CASE t = Source -> <<>>
      [] t = Extractor -> <<SendEnd("location"), ReceiveEnd("tweet")>>
      [] t = Resolver -> <<SendEnd("temperature_to_average"),
                           SendEnd("temperature_to_file"), ReceiveEnd("location")>>
      [] t = TemperatureSink -> <<ReceiveEnd("temperature_to_file")>>
      [] t = Averager -> <<SendEnd("average"), ReceiveEnd("temperature_to_average")>>
      [] t = AverageSink -> <<ReceiveEnd("average")>>

Range(s) == {s[i] : i \in 1..Len(s)}

Receivers == Tasks \ {Source}
Senders == {Source, Extractor, Resolver, Averager}
SendingAt == {"send", "send_to_file", "send_to_average"}

\* a plausible slip: the line terminator is left out
FormatLineUnterminated(record) ==
    [timestamp |-> record.timestamp, value |-> record.value, newline |-> FALSE]

\* f'{timestamp},{datum}\n': one whole line of text
FormatLine(record) == [timestamp |-> record.timestamp, value |-> record.value, newline |-> TRUE]

NoLookup ==
    [timestamp |-> 0, coordinates |-> Nothing, attempt_number |-> 0, failures |-> 0,
     earlier |-> 0, responses |-> 0, response |-> <<>>, result |-> "none"]

\* the call is over: what is left of it is the number of attempts it made,
\* which a retry state shared between calls would carry into the next one,
\* and, for the record, its last answer and what was made of it
Returned(call) ==
    [NoLookup EXCEPT !.attempt_number = call.attempt_number,
                     !.earlier = Min(1, call.earlier + call.failures),
                     !.response = call.response,
                     !.result = call.result]

\* the state async_main starts from, for a given window size and given
\* places of the tasks
Start(size, places) ==
    /\ window_size = size
    /\ pc = places
    /\ exc = [t \in Tasks |-> "none"]
    /\ unwind = [t \in Tasks |-> ContextManagers(t)]
    /\ closed = {}
    /\ cancelled = FALSE
    /\ interrupted = FALSE
    /\ mainPc = "nursery"
    /\ clientCloses = [c \in Clients |-> 0]
    /\ stream = [attempts |-> 0, connections |-> 0, failures |-> 0, yielded |-> 0, sent |-> 0]
    /\ line = <<>>
    /\ extraction = <<>>
    /\ location = <<>>
    /\ lookup = NoLookup
    /\ noLocation = {}
    /\ datum = <<>>
    /\ window = InitialWindow(window_size)
    /\ average = <<>>
    /\ received = [s \in Sinks |-> <<>>]
    /\ file = [s \in Sinks |-> <<>>]
    /\ rawIn = <<>>
    /\ avgIn = <<>>
    /\ avgOut = <<>>
    /\ failedSends = {}
    /\ discarded = 0

\* lines 31-48: the six tasks are started; write_data opens its file first
Init ==
    Start(MinWindow, [t \in Tasks |-> CASE t = Source -> "connect"
                                         [] t \in Sinks -> "open"
                                         [] OTHER -> "receive"])

\* ------------------------------------------------------------------------
\* What the outside world supplies in Spec
\* ------------------------------------------------------------------------

\* the n-th line of the stream: a tweet with a point, one that is no JSON,
\* or one whose created_at is no ISO-8601 string
StreamLines(n) ==
    { Tweet(Data(CreatedAt(n), Geo(List(<<Num(25), Num(90)>>), Absent)), NoIncludes),
      Garbage,
      Tweet(Data(BadCreatedAt, NoGeo), NoIncludes) }

\* what the weather service answers to one request
Responses ==
    { WeatherResponse(Dec(10)),
      ErrorResponse(400, NO_MATCHING_LOCATION), ErrorResponse(400, 2008),
      ErrorResponse(404, NO_MATCHING_LOCATION),
      Response(400, "nonobject", 0, NoTemp) }

\* ------------------------------------------------------------------------
\* Tasks: leaving the body
\* ------------------------------------------------------------------------

Checkpoints == {"connect", "read", "open", "receive", "lookup", "write"} \cup SendingAt

\* The body of task t is left by exception e ("none": by the end of its
\* loop).  The exception passes through the context managers of the task, and
\* each closes its resource: aclose() closes the channel end, file or stream
\* at once and then executes a checkpoint.  The closes are taken together
\* with the step that raises; the task is then at a checkpoint ("closing")
\* until it is over.  A task that holds nothing passes no checkpoint.
Leave(t, e) ==
    /\ pc' = [pc EXCEPT ![t] = IF unwind[t] = <<>> THEN "raising" ELSE "closing"]
    /\ exc' = [exc EXCEPT ![t] = e]
    /\ closed' = closed \cup Range(unwind[t])
    /\ unwind' = [unwind EXCEPT ![t] = <<>>]

\* Cancelling the nursery's scope.  Every task waits at a checkpoint unless it
\* is closing its resources or is over; a task at a checkpoint gets Cancelled
\* there, the exception passes through its context managers, each of which
\* closes its resource, and the task is over.  The cancelled tasks cannot act
\* on one another while this happens, so it is taken as one step, together
\* with the step that cancels the scope.  hit is the set of those tasks.
AtCheckpoint(others) == {t \in others : pc[t] \in Checkpoints}

Cancelling(hit) ==
    /\ cancelled' = TRUE
    /\ closed' = closed \cup UNION {Range(unwind[t]) : t \in hit}
    /\ unwind' = [t \in Tasks |-> IF t \in hit THEN <<>> ELSE unwind[t]]
    /\ line' = IF Source \in hit THEN <<>> ELSE line
    /\ location' = IF Extractor \in hit THEN <<>> ELSE location
    /\ datum' = IF Resolver \in hit THEN <<>> ELSE datum
    /\ average' = IF Averager \in hit THEN <<>> ELSE average
    /\ received' = [s \in Sinks |-> IF s \in hit THEN <<>> ELSE received[s]]

\* a plausible slip: the failed send is swallowed, the record is dropped and
\* the stage goes on with the next one
BrokenDropsRecord(t) ==
    /\ t \in Senders
    /\ pc[t] \in SendingAt
    /\ ReceiveEnd(Output(t, pc[t])) \in closed
    /\ pc' = [pc EXCEPT ![t] = IF t = Source THEN "read" ELSE "receive"]
    /\ failedSends' = failedSends \cup {t}
    /\ line' = IF t = Source THEN <<>> ELSE line
    /\ location' = IF t = Extractor THEN <<>> ELSE location
    /\ datum' = IF t = Resolver THEN <<>> ELSE datum
    /\ average' = IF t = Averager THEN <<>> ELSE average
    /\ UNCHANGED <<window_size, discarded, exc, unwind, closed, cancelled, interrupted, mainPc,
                   clientCloses, stream, extraction, lookup, noLocation, window,
                   received, file, rawIn, avgIn, avgOut>>

\* memory channel send: BrokenResourceError when the receive end is closed
Broken(t) ==
    /\ t \in Senders
    /\ pc[t] \in SendingAt
    /\ ReceiveEnd(Output(t, pc[t])) \in closed
    /\ Leave(t, "BrokenResourceError")
    /\ failedSends' = failedSends \cup {t}
    /\ line' = IF t = Source THEN <<>> ELSE line
    /\ location' = IF t = Extractor THEN <<>> ELSE location
    /\ datum' = IF t = Resolver THEN <<>> ELSE datum
    /\ average' = IF t = Averager THEN <<>> ELSE average
    /\ UNCHANGED <<window_size, discarded, cancelled, interrupted, mainPc, clientCloses, stream,
                   extraction, lookup, noLocation, window, received, file, rawIn, avgIn,
                   avgOut>>

\* async for over a receive channel ends when every send end is closed
EndOfChannel(t) ==
    /\ t \in Receivers
    /\ pc[t] = "receive"
    /\ SendEnd(Input(t)) \in closed
    /\ Leave(t, "none")
    /\ UNCHANGED <<window_size, failedSends, discarded, cancelled, interrupted, mainPc, clientCloses, stream,
                   line, extraction, location, lookup, noLocation, datum, window,
                   average, received, file, rawIn, avgIn, avgOut>>

\* The exception a task carries on from the checkpoint that ends aclose():
\* Cancelled is raised there when the scope has been cancelled meanwhile, and
\* replaces the exception that was being propagated.
AfterCheckpoint(t) ==
    IF pc[t] = "closing" /\ cancelled THEN "Cancelled" ELSE exc[t]

\* the task function returns or raises into the nursery, which cancels its
\* scope on any exception but Cancelled
Exit(t) ==
    /\ pc[t] \in {"raising", "closing"}
    /\ IF AfterCheckpoint(t) \in {"none", "Cancelled"}
       THEN /\ pc' = [pc EXCEPT ![t] = "done"]
            /\ exc' = [exc EXCEPT ![t] = AfterCheckpoint(t)]
            /\ UNCHANGED <<cancelled, closed, unwind, line, location, datum, average,
                           received>>
       ELSE LET hit == AtCheckpoint(Tasks \ {t})
            IN  /\ pc' = [u \in Tasks |-> IF u = t \/ u \in hit THEN "done" ELSE pc[u]]
                /\ exc' = [u \in Tasks |-> IF u \in hit THEN "Cancelled" ELSE exc[u]]
                /\ Cancelling(hit)
    /\ UNCHANGED <<window_size, failedSends, discarded, interrupted, mainPc, clientCloses, stream, extraction,
                   lookup, noLocation, window, file, rawIn, avgIn, avgOut>>

\* ------------------------------------------------------------------------
\* observe_twitter_sample_stream (pipeline.py 24-34; twitter.py 23-38)
\* ------------------------------------------------------------------------
\* stream() is an async generator function.  tenacity.retry wraps it as a
\* plain function: the call inside the retry loop only creates the generator
\* and returns, so the loop sees one successful attempt and is over before a
\* connection is made.  The request is sent when the async for of line 32
\* first resumes the generator, and a TransportError raised then, or while
\* lines are read, goes straight to the caller.

\* line 32, first pass: the generator opens the HTTP stream (twitter.py 33)
SourceConnect ==
    /\ pc[Source] = "connect"
    /\ ~cancelled
    /\ \/ /\ stream' = [stream EXCEPT !.attempts = @ + 1, !.connections = @ + 1,
                                      !.failures = 0]
          /\ pc' = [pc EXCEPT ![Source] = "read"]
          /\ unwind' = [unwind EXCEPT ![Source] = <<HttpStream>>]
          /\ UNCHANGED <<exc, closed>>
       \/ /\ stream' = [stream EXCEPT !.attempts = @ + 1, !.failures = @ + 1]
          /\ Leave(Source, "TransportError")
    /\ UNCHANGED <<window_size, failedSends, discarded, cancelled, interrupted, mainPc, clientCloses, line,
                   extraction, location, lookup, noLocation, datum, window, average,
                   received, file, rawIn, avgIn, avgOut>>

\* line 32: the next line of the response (twitter.py 37-38), a
\* TransportError while reading, or the end of the response
Read(limit) ==
    /\ pc[Source] = "read"
    /\ ~cancelled
    /\ \/ /\ stream.yielded < limit
          /\ \E l \in StreamLines(stream.yielded + 1) : line' = <<l>>
          /\ stream' = [stream EXCEPT !.yielded = @ + 1]
          /\ pc' = [pc EXCEPT ![Source] = "send"]
          /\ UNCHANGED <<exc, unwind, closed>>
       \/ /\ stream' = [stream EXCEPT !.failures = @ + 1]
          /\ Leave(Source, "TransportError")
          /\ UNCHANGED line
       \/ /\ Leave(Source, "none")
          /\ UNCHANGED <<stream, line>>
    /\ UNCHANGED <<window_size, failedSends, discarded, cancelled, interrupted, mainPc, clientCloses,
                   extraction, location, lookup, noLocation, datum, window, average,
                   received, file, rawIn, avgIn, avgOut>>

SourceRead == Read(MaxRecords)

\* ------------------------------------------------------------------------
\* extract_time_and_coordinates (pipeline.py 37-61)
\* ------------------------------------------------------------------------

\* a plausible slip: the tweet channel has a buffer, and the source's send
\* completes without the extractor's receive
SendTweetBuffered ==
    /\ pc[Source] = "send"
    /\ ~cancelled
    /\ pc' = [pc EXCEPT ![Source] = "read"]
    /\ line' = <<>>
    /\ stream' = [stream EXCEPT !.sent = @ + 1]
    /\ UNCHANGED <<window_size, failedSends, discarded, exc, unwind, closed, cancelled,
                   interrupted, mainPc, clientCloses, extraction, location, lookup,
                   noLocation, datum, window, average, received, file, rawIn, avgIn,
                   avgOut>>

\* line 34 meets line 44: the source's send and the extractor's receive, and
\* the extractor's loop body (lines 45-60) up to its own send
SendTweet ==
    /\ pc[Source] = "send"
    /\ pc[Extractor] = "receive"
    /\ ~cancelled
    /\ LET result == Extract(line[1])
       IN  /\ extraction' = <<[line |-> line[1], result |-> result]>>
           /\ location' = IF result.kind = "coords"
                          THEN <<[timestamp |-> result.ts, coordinates |-> result.coordinates]>>
                          ELSE <<>>
           /\ discarded' = IF result.kind \in {"coords", "error"}
                           THEN discarded ELSE discarded + 1
           /\ IF result.kind = "error"
              THEN /\ pc' = [pc EXCEPT ![Source] = "read", ![Extractor] = "closing"]
                   /\ exc' = [exc EXCEPT ![Extractor] = "Error"]
                   /\ closed' = closed \cup Range(unwind[Extractor])
                   /\ unwind' = [unwind EXCEPT ![Extractor] = <<>>]
              ELSE /\ pc' = [pc EXCEPT ![Source] = "read",
                                       ![Extractor] = IF result.kind = "coords"
                                                      THEN "send" ELSE "receive"]
                   /\ UNCHANGED <<exc, closed, unwind>>
    /\ line' = <<>>
    /\ stream' = [stream EXCEPT !.sent = @ + 1]
    /\ UNCHANGED <<window_size, failedSends, cancelled, interrupted, mainPc, clientCloses, lookup,
                   noLocation, datum, window, average, received, file, rawIn, avgIn,
                   avgOut>>

\* ------------------------------------------------------------------------
\* get_temperature (pipeline.py 64-80; weather.py 31-70)
\* ------------------------------------------------------------------------

\* lines 72-73: the resolver receives a location and calls the decorated
\* coroutine
ResolverTakes(found) ==
    lookup' = [timestamp |-> found.timestamp,
               coordinates |-> found.coordinates,
               attempt_number |-> new_attempt_number(lookup.attempt_number),
               failures |-> 0,
               earlier |-> lookup.earlier,
               responses |-> 0,
               response |-> <<>>,
               result |-> "pending"]

\* line 61 meets line 72: the extractor's send and the resolver's receive
SendLocation ==
    /\ pc[Extractor] = "send"
    /\ pc[Resolver] = "receive"
    /\ ~cancelled
    /\ ResolverTakes(location[1])
    /\ location' = <<>>
    /\ pc' = [pc EXCEPT ![Extractor] = "receive", ![Resolver] = "lookup"]
    /\ UNCHANGED <<window_size, failedSends, discarded, exc, unwind, closed, cancelled, interrupted, mainPc,
                   clientCloses, stream, line, extraction, noLocation, datum, window,
                   average, received, file, rawIn, avgIn, avgOut>>

\* tenacity, after an attempt raised: wait and try again ("retry"), or raise
\* RetryError, or let an exception that is not retried through
AfterException(exception, attempt_number) ==
    IF retry_if_exception_type(exception)
    THEN IF stop_after_attempt(attempt_number) THEN "RetryError" ELSE "retry"
    ELSE exception

\* the resolver after an attempt that raised
Raised(exception, attempt_number) ==
    IF AfterException(exception, attempt_number) = "retry"
    THEN UNCHANGED <<pc, exc, closed, unwind>>
    ELSE Leave(Resolver, AfterException(exception, attempt_number))

\* weather.py 39: one request of the lookup.  It fails in transport or is
\* answered; lines 40-70 deal with the answer.  lookup is the call in
\* progress: it is over when the call returns None, and when the record it
\* returned has been sent on.
Attempt(responses) ==
    /\ pc[Resolver] = "lookup"
    /\ ~cancelled
    /\ LET n == lookup.attempt_number + 1
       IN  \/ /\ lookup' = [lookup EXCEPT !.attempt_number = n, !.failures = @ + 1]
              /\ Raised("TransportError", n)
              /\ UNCHANGED <<datum, noLocation, discarded>>
           \/ \E response \in responses :
                LET handled == handle_response(response)
                    answered == [lookup EXCEPT !.attempt_number = n,
                                               !.responses = @ + 1,
                                               !.response = <<response>>,
                                               !.result = handled.kind]
                IN  /\ noLocation' =
                          IF response.body = "error" /\ response.code = NO_MATCHING_LOCATION
                          THEN noLocation \cup {[timestamp |-> lookup.timestamp,
                                                 status |-> response.status]}
                          ELSE noLocation
                    /\ CASE handled.kind = "raise" ->
                              /\ lookup' = answered
                              /\ Raised(handled.exception, n)
                              /\ UNCHANGED <<datum, discarded>>
                         [] handled.kind = "none" ->
                              /\ lookup' = Returned(answered)
                              /\ pc' = [pc EXCEPT ![Resolver] = "receive"]
                              /\ discarded' = discarded + 1
                              /\ UNCHANGED <<exc, closed, unwind, datum>>
                         [] OTHER ->
                              /\ lookup' = answered
                              /\ datum' = <<[timestamp |-> lookup.timestamp,
                                             value |-> handled.value]>>
                              /\ pc' = [pc EXCEPT ![Resolver] = "send_to_file"]
                              /\ UNCHANGED <<exc, closed, unwind, discarded>>
    /\ UNCHANGED <<window_size, failedSends, cancelled, interrupted, mainPc, clientCloses, stream,
                   line, extraction, location, window, average, received, file, rawIn,
                   avgIn, avgOut>>

LookupAttempt == Attempt(Responses)

\* a plausible slip: the record goes to the file sink only
SendTemperatureToFileOnly ==
    /\ pc[Resolver] = "send_to_file"
    /\ pc[TemperatureSink] = "receive"
    /\ ~cancelled
    /\ received' = [received EXCEPT ![TemperatureSink] = datum]
    /\ rawIn' = Append(rawIn, datum[1])
    /\ datum' = <<>>
    /\ lookup' = Returned(lookup)
    /\ pc' = [pc EXCEPT ![Resolver] = "receive", ![TemperatureSink] = "write"]
    /\ UNCHANGED <<window_size, failedSends, discarded, exc, unwind, closed, cancelled, interrupted, mainPc,
                   clientCloses, stream, line, extraction, location, noLocation,
                   window, average, file, avgIn, avgOut>>

\* line 77 meets write_data's line 110
SendTemperatureToFile ==
    /\ pc[Resolver] = "send_to_file"
    /\ pc[TemperatureSink] = "receive"
    /\ ~cancelled
    /\ received' = [received EXCEPT ![TemperatureSink] = datum]
    /\ rawIn' = Append(rawIn, datum[1])
    /\ pc' = [pc EXCEPT ![Resolver] = "send_to_average", ![TemperatureSink] = "write"]
    /\ UNCHANGED <<window_size, failedSends, discarded, exc, unwind, closed, cancelled, interrupted, mainPc,
                   clientCloses, stream, line, extraction, location, lookup, noLocation,
                   datum, window, average, file, avgIn, avgOut>>

\* ------------------------------------------------------------------------
\* compute_sliding_average (pipeline.py 83-102)
\* ------------------------------------------------------------------------

\* a plausible slip: the average is sent without the record's timestamp
AveragerTakesNoTimestamp(record) ==
    /\ window' = SlidingUpdate(window, window_size, record.value)
    /\ average' = <<[timestamp |-> 0, value |-> Average(window', window_size)]>>
    /\ avgIn' = Append(avgIn, record)

\* lines 93-101: the averager receives a record and computes the average it
\* will send
AveragerTakes(record) ==
    /\ window' = SlidingUpdate(window, window_size, record.value)
    /\ average' = <<[timestamp |-> record.timestamp,
                     value |-> Average(window', window_size)]>>
    /\ avgIn' = Append(avgIn, record)

\* line 102: the send of the average is over
AveragerGives ==
    /\ avgOut' = Append(avgOut, average[1])
    /\ average' = <<>>

\* line 78 meets line 93: the resolver's second send and the averager's
\* receive, and the averager's loop body (lines 94-101) up to its send
SendTemperatureToAverage ==
    /\ pc[Resolver] = "send_to_average"
    /\ pc[Averager] = "receive"
    /\ ~cancelled
    /\ AveragerTakes(datum[1])
    /\ datum' = <<>>
    /\ lookup' = Returned(lookup)
    /\ pc' = [pc EXCEPT ![Resolver] = "receive", ![Averager] = "send"]
    /\ UNCHANGED <<window_size, failedSends, discarded, exc, unwind, closed, cancelled, interrupted, mainPc,
                   clientCloses, stream, line, extraction, location, noLocation,
                   received, file, rawIn, avgOut>>

\* line 102 meets write_data's line 110
SendAverage ==
    /\ pc[Averager] = "send"
    /\ pc[AverageSink] = "receive"
    /\ ~cancelled
    /\ received' = [received EXCEPT ![AverageSink] = average]
    /\ AveragerGives
    /\ pc' = [pc EXCEPT ![Averager] = "receive", ![AverageSink] = "write"]
    /\ UNCHANGED <<window_size, failedSends, discarded, exc, unwind, closed, cancelled, interrupted, mainPc,
                   clientCloses, stream, line, extraction, location, lookup, noLocation,
                   datum, window, file, rawIn, avgIn>>

\* ------------------------------------------------------------------------
\* write_data (pipeline.py 105-111)
\* ------------------------------------------------------------------------

\* line 109: output_path.open('wt') creates or truncates the file, or
\* fails with OSError inside the async with of data_source
SinkOpen(s) ==
    /\ pc[s] = "open"
    /\ ~cancelled
    /\ \/ /\ pc' = [pc EXCEPT ![s] = "receive"]
          /\ unwind' = [unwind EXCEPT ![s] = <<File(s)>> \o @]
          /\ UNCHANGED <<exc, closed>>
       \/ Leave(s, "OSError")
    /\ UNCHANGED <<window_size, failedSends, discarded, cancelled, interrupted, mainPc,
                   clientCloses, stream, line, extraction, location, lookup, noLocation,
                   datum, window, average, received, file, rawIn, avgIn, avgOut>>

\* line 111: output_file.write, which begins with a checkpoint; the line
\* is written, or the write fails with OSError
SinkWrite(s) ==
    /\ pc[s] = "write"
    /\ ~cancelled
    /\ received' = [received EXCEPT ![s] = <<>>]
    /\ \/ /\ file' = [file EXCEPT ![s] = Append(@, FormatLine(received[s][1]))]
          /\ pc' = [pc EXCEPT ![s] = "receive"]
          /\ UNCHANGED <<exc, unwind, closed>>
       \/ /\ Leave(s, "OSError")
          /\ UNCHANGED file
    /\ UNCHANGED <<window_size, failedSends, discarded, cancelled, interrupted, mainPc,
                   clientCloses, stream, line, extraction, location, lookup, noLocation,
                   datum, window, average, rawIn, avgIn, avgOut>>

\* ------------------------------------------------------------------------
\* async_main (main.py 23-48) and the operator
\* ------------------------------------------------------------------------

\* Ctrl+C: KeyboardInterrupt is raised in async_main, which waits in the
\* nursery; the nursery cancels its scope
Interrupt ==
    /\ mainPc = "nursery"
    /\ ~interrupted
    /\ interrupted' = TRUE
    /\ LET hit == AtCheckpoint(Tasks)
       IN  /\ pc' = [u \in Tasks |-> IF u \in hit THEN "done" ELSE pc[u]]
           /\ exc' = [u \in Tasks |-> IF u \in hit THEN "Cancelled" ELSE exc[u]]
           /\ Cancelling(hit)
    /\ UNCHANGED <<window_size, failedSends, discarded, mainPc, clientCloses, stream, extraction, lookup,
                   noLocation, window, file, rawIn, avgIn, avgOut>>

\* a plausible slip: only the weather client is wrapped in aclosing()
MainExitClosingOne ==
    /\ mainPc = "nursery"
    /\ \A t \in Tasks : pc[t] = "done"
    /\ clientCloses' = [clientCloses EXCEPT !["weather_client"] = @ + 1]
    /\ mainPc' = "exited"
    /\ UNCHANGED <<window_size, failedSends, discarded, pc, exc, unwind, closed, cancelled, interrupted,
                   stream, line, extraction, location, lookup, noLocation, datum, window,
                   average, received, file, rawIn, avgIn, avgOut>>

\* lines 24-26: the nursery block is left once every child is over, and the
\* two aclosing() blocks around it then close the clients, the inner one
\* first; no task is left to run in between
MainExit ==
    /\ mainPc = "nursery"
    /\ \A t \in Tasks : pc[t] = "done"
    /\ clientCloses' = [c \in Clients |-> clientCloses[c] + 1]
    /\ mainPc' = "exited"
    /\ UNCHANGED <<window_size, failedSends, discarded, pc, exc, unwind, closed, cancelled, interrupted,
                   stream, line, extraction, location, lookup, noLocation, datum, window,
                   average, received, file, rawIn, avgIn, avgOut>>

\* what trio.run gives back to __main__.py: an exception of a task (exit
\* status 1), else KeyboardInterrupt (exit status 0), else nothing
Outcome ==
    IF \E t \in Tasks : exc[t] \notin {"none", "Cancelled"} THEN "failure"
    ELSE IF interrupted THEN "interrupted"
    ELSE "success"

Next ==
    \/ SourceConnect
    \/ SourceRead
    \/ SendTweet
    \/ SendLocation
    \/ LookupAttempt
    \/ SendTemperatureToFile
    \/ SendTemperatureToAverage
    \/ SendAverage
    \/ \E s \in Sinks : SinkOpen(s)
    \/ \E s \in Sinks : SinkWrite(s)
    \/ \E t \in Tasks : Broken(t)
    \/ \E t \in Tasks : EndOfChannel(t)
    \/ \E t \in Tasks : Exit(t)
    \/ Interrupt
    \/ MainExit

Spec == Init /\ [][Next]_vars

\* ------------------------------------------------------------------------
\* SpecAverage: compute_sliding_average between an arbitrary producer and an
\* arbitrary consumer
\* ------------------------------------------------------------------------

\* the temperatures the producer sends
Temperatures == {-25, 10, 20, 30, 40}

InitAverage ==
    \E size \in MinWindow..MaxWindow :
        Start(size, [t \in Tasks |-> IF t = Averager THEN "receive" ELSE "absent"])

\* the producer's send meets line 93
ProducerSends ==
    /\ pc[Averager] = "receive"
    /\ Len(avgIn) < MaxInputs
    /\ \E v \in Temperatures :
          AveragerTakes([timestamp |-> Len(avgIn) + 1, value |-> v])
    /\ pc' = [pc EXCEPT ![Averager] = "send"]
    /\ UNCHANGED <<window_size, failedSends, discarded, exc, unwind, closed, cancelled, interrupted, mainPc,
                   clientCloses, stream, line, extraction, location, lookup, noLocation,
                   datum, received, file, rawIn, avgOut>>

\* line 102 meets the consumer's receive
ConsumerReceives ==
    /\ pc[Averager] = "send"
    /\ AveragerGives
    /\ pc' = [pc EXCEPT ![Averager] = "receive"]
    /\ UNCHANGED <<window_size, failedSends, discarded, exc, unwind, closed, cancelled, interrupted, mainPc,
                   clientCloses, stream, line, extraction, location, lookup, noLocation,
                   datum, window, received, file, rawIn, avgIn>>

NextAverage ==
    \/ ProducerSends
    \/ ConsumerReceives

SpecAverage == InitAverage /\ [][NextAverage]_vars

\* ------------------------------------------------------------------------
\* SpecExtract: extract_time_and_coordinates fed arbitrary lines
\* ------------------------------------------------------------------------

\* number of lines fed in SpecExtract
MaxLines == 2

Points ==
    { Absent, Other,
      List(<<Num(25), Num(90)>>), Nested(<<Num(-7), Num(33), Num(3)>>),
      List(<<NumStr(25), Num(90)>>), List(<<Str, Num(90)>>), List(<<Num(25)>>) }

BBoxes ==
    { Absent, Other,
      List(<<Num(20), Num(80), Num(30), Num(100)>>),
      List(<<Num(20), Num(80), Num(6), Num(30), Num(100), Num(8)>>),
      List(<<Num(20), Num(80), Num(30)>>),
      List(<<Str, Num(80), Str, Num(100)>>) }

Geos == {NoGeo, BadGeo} \cup {Geo(c, b) : c \in Points, b \in BBoxes}

PlaceLists ==
    { <<>>,
      <<Place(NoGeo), Place(Geo(List(<<Num(2), Num(4)>>), Absent))>>,
      <<Place(Geo(Absent, List(<<Num(0), Num(0), Num(8), Num(6)>>))),
        Place(Geo(List(<<Num(2), Num(4)>>), Absent))>>,
      <<Place(Geo(List(<<Num(1)>>), Absent)), Place(Geo(List(<<Num(2), Num(4)>>), Absent))>>,
      <<Place(Geo(List(<<Num(2), Num(4)>>), Absent)), BadPlace>>,
      <<Place(Geo(Other, Other))>> }

Lines ==
    {Garbage, NonObject, Tweet(NoData, NoIncludes), Tweet(BadData, NoIncludes)}
    \cup {Tweet(Data(c, Geo(List(<<Num(25), Num(90)>>), Absent)), NoIncludes) :
            c \in {NoCreatedAt, NonStringCreatedAt, BadCreatedAt}}
    \cup {Tweet(Data(CreatedAt(1), g), i) :
            g \in Geos, i \in {NoIncludes, BadIncludes} \cup {Includes(p) : p \in PlaceLists}}

InitExtract ==
    Start(MinWindow, [t \in Tasks |-> CASE t = Source -> "read"
                                        [] t = Extractor -> "receive"
                                        [] OTHER -> "absent"])

\* the stream yields any line
StreamYields ==
    /\ pc[Source] = "read"
    /\ stream.yielded < MaxLines
    /\ \E l \in Lines : line' = <<l>>
    /\ stream' = [stream EXCEPT !.yielded = @ + 1]
    /\ pc' = [pc EXCEPT ![Source] = "send"]
    /\ UNCHANGED <<window_size, failedSends, discarded, exc, unwind, closed, cancelled, interrupted, mainPc,
                   clientCloses, extraction, location, lookup, noLocation, datum, window,
                   average, received, file, rawIn, avgIn, avgOut>>

\* line 61 meets the consumer's receive
LocationTaken ==
    /\ pc[Extractor] = "send"
    /\ location' = <<>>
    /\ pc' = [pc EXCEPT ![Extractor] = "receive"]
    /\ UNCHANGED <<window_size, failedSends, discarded, exc, unwind, closed, cancelled, interrupted, mainPc,
                   clientCloses, stream, line, extraction, lookup, noLocation, datum,
                   window, average, received, file, rawIn, avgIn, avgOut>>

NextExtract ==
    \/ StreamYields
    \/ SendTweet
    \/ LocationTaken

SpecExtract == InitExtract /\ [][NextExtract]_vars

\* ------------------------------------------------------------------------
\* SpecLookup: get_temperature between an arbitrary producer and arbitrary
\* consumers, the weather service answering anything
\* ------------------------------------------------------------------------

\* number of locations fed in SpecLookup
MaxLookups == 2

\* what temp_f may be
TemperatureFields ==
    { Dec(10), PyInt(72), NumStr(25), Str, [t |-> "other", v |-> 0], NoTemp }

LookupResponses ==
    {WeatherResponse(temp) : temp \in TemperatureFields}
    \cup {Response(200, body, 0, NoTemp) : body \in {"garbage", "nonobject", "badcurrent"}}
    \cup {ErrorResponse(400, NO_MATCHING_LOCATION), ErrorResponse(500, 0),
          Response(400, "garbage", 0, NoTemp)}

InitLookup ==
    Start(MinWindow, [t \in Tasks |-> IF t = Resolver THEN "receive" ELSE "absent"])

\* the producer's send meets line 72
LocationArrives ==
    /\ pc[Resolver] = "receive"
    /\ stream.yielded < MaxLookups
    /\ ResolverTakes([timestamp |-> stream.yielded + 1, coordinates |-> Coordinates(50, 180)])
    /\ stream' = [stream EXCEPT !.yielded = @ + 1]
    /\ pc' = [pc EXCEPT ![Resolver] = "lookup"]
    /\ UNCHANGED <<window_size, failedSends, discarded, exc, unwind, closed, cancelled, interrupted, mainPc,
                   clientCloses, line, extraction, location, noLocation, datum, window,
                   average, received, file, rawIn, avgIn, avgOut>>

LookupAny == Attempt(LookupResponses)

\* line 77 meets the first consumer's receive
FileTakes ==
    /\ pc[Resolver] = "send_to_file"
    /\ rawIn' = Append(rawIn, datum[1])
    /\ pc' = [pc EXCEPT ![Resolver] = "send_to_average"]
    /\ UNCHANGED <<window_size, failedSends, discarded, exc, unwind, closed, cancelled, interrupted, mainPc,
                   clientCloses, stream, line, extraction, location, lookup, noLocation,
                   datum, window, average, received, file, avgIn, avgOut>>

\* line 78 meets the second consumer's receive
AverageTakes ==
    /\ pc[Resolver] = "send_to_average"
    /\ avgIn' = Append(avgIn, datum[1])
    /\ datum' = <<>>
    /\ lookup' = Returned(lookup)
    /\ pc' = [pc EXCEPT ![Resolver] = "receive"]
    /\ UNCHANGED <<window_size, failedSends, discarded, exc, unwind, closed, cancelled, interrupted, mainPc,
                   clientCloses, stream, line, extraction, location, noLocation, window,
                   average, received, file, rawIn, avgOut>>

NextLookup ==
    \/ LocationArrives
    \/ LookupAny
    \/ FileTakes
    \/ AverageTakes

SpecLookup == InitLookup /\ [][NextLookup]_vars

\* ------------------------------------------------------------------------
\* Properties
\* ------------------------------------------------------------------------

\* the values of a sequence of (timestamp, value) records
Values(records) == [i \in 1..Len(records) |-> records[i].value]
Timestamps(records) == {records[i].timestamp : i \in 1..Len(records)}

\* every average computed so far: those delivered and the one being sent
Averages == avgOut \o average

\* the mean of the last min(k, window_size) of the first k inputs, as a
\* fraction in lowest terms
MeanOfLast(k) ==
    Fraction(SumSeq(LastN(SubSeq(Values(avgIn), 1, k), window_size)), Min(k, window_size))

\* the decimal that is exactly the fraction q
Exactly(q) == [num |-> q.num, den |-> q.den, rounded |-> FALSE]

Resident(k) == window.buffer[((window.current - k) % window_size) + 1]

WindowConsistent ==
    /\ window.count <= window_size
    /\ window.count = Min(Len(avgIn), window_size)
    /\ window.current \in 0..(window_size - 1)
    /\ \A k \in 1..window.count : Resident(k) = avgIn[Len(avgIn) - k + 1].value
    /\ window.total = SumSeq([k \in 1..window.count |-> Resident(k)])

\* C2: after every update of the window, total is the sum of the count most
\* recent values resident in buffer, count never exceeds window_size and
\* never decreases, and current stays within 0..window_size-1.
C2_WindowInvariant ==
    /\ []WindowConsistent
    /\ [][window'.count >= window.count]_vars

\* C2 witness: the window is full and has wrapped around
C2_Witness ==
    /\ window.count = window_size
    /\ Len(avgIn) = 2 * window_size + 1
    /\ window.current = 1

\* C3: once the pipeline has terminated, the temperature sink and the
\* averager have received the same records in the same order, however the
\* pipeline ended.
C3_FanOutNeverDiverges ==
    mainPc = "exited" => rawIn = avgIn

\* C4: when every connection attempt of the stream fails in transport, the
\* source makes exactly MaxAttempts attempts before the error ends it, and the
\* pipeline then reports failure.
C4_FiveConnectionAttempts ==
    (stream.connections = 0 /\ pc[Source] \in {"raising", "closing", "done"}
     /\ exc[Source] = "TransportError")
    => /\ stream.attempts = MaxAttempts
       /\ (mainPc = "exited" => Outcome = "failure")

\* C5: fewer than MaxAttempts transport failures in a row (connecting or
\* reading) do not end the source, and every line the connection yields is
\* sent on to the extractor.
C5_SourceResumes ==
    /\ stream.failures < MaxAttempts => exc[Source] # "TransportError"
    /\ pc[Source] \in {"connect", "read", "send"}
       => stream.yielded = stream.sent + Len(line)

\* the records of timestamp ts that the resolver has delivered or holds
Delivered(ts) ==
    \/ ts \in Timestamps(rawIn)
    \/ ts \in Timestamps(avgIn)
    \/ ts \in Timestamps(datum)

\* C6: the attempt counter of a lookup counts the transport failures of that
\* lookup alone: a lookup answered after fewer than MaxAttempts failures goes
\* on with its record, a lookup ends in RetryError exactly when MaxAttempts of
\* its own attempts failed in transport, which ends the resolver and the
\* pipeline, and failures of earlier lookups do not count.
C6_AttemptCounterPerLookup ==
    /\ pc[Resolver] = "lookup" =>
          /\ lookup.attempt_number = lookup.failures
          /\ lookup.failures < MaxAttempts
    /\ exc[Resolver] = "RetryError" =>
          /\ lookup.failures = MaxAttempts
          /\ lookup.responses = 0
    /\ lookup.failures = MaxAttempts =>
          /\ pc[Resolver] \in {"closing", "done"}
          /\ exc[Resolver] \in {"RetryError", "Cancelled"}
          /\ ~Delivered(lookup.timestamp)
          /\ mainPc = "exited" => Outcome # "success"
    /\ (lookup.result = "temperature" /\ pc[Resolver] \in SendingAt) =>
          /\ lookup.failures < MaxAttempts
          /\ Timestamps(datum) = {lookup.timestamp}

\* C6 witness: a lookup is answered after MaxAttempts - 1 transport failures
\* of its own although an earlier lookup had transport failures too
C6_Witness ==
    /\ pc[Resolver] = "send_to_file"
    /\ lookup.failures = MaxAttempts - 1
    /\ lookup.earlier = 1

\* the response the claim calls suppressed, as weather.py recognises it
Suppressed(response) ==
    /\ response.status = BAD_REQUEST
    /\ response.body = "error"
    /\ response.code = NO_MATCHING_LOCATION

\* the lookup answered by m returned None: nothing of its record went to
\* either consumer, and it is not the lookup that ended the resolver
SoftSkip(m) ==
    /\ ~Delivered(m.timestamp)
    /\ lookup.timestamp # m.timestamp

FatalStatus ==
    /\ lookup.response # <<>>
    /\ ~is_success(lookup.response[1].status)
    /\ ~Suppressed(lookup.response[1])

\* C8 as stated: such a lookup makes exactly one request, the error leaves
\* the resolver, and the pipeline terminates with failure.
C8_ExactlyOneRequest ==
    FatalStatus =>
        /\ lookup.attempt_number = 1
        /\ pc[Resolver] \in {"closing", "done"}
        /\ mainPc = "exited" => Outcome = "failure"

\* C8: such a response is never retried: the request it answers is the last
\* of the lookup and the only one answered, the error leaves the resolver's
\* loop, and the pipeline terminates with failure unless the operator
\* interrupts it while the resolver is closing its channels.
C8_StatusErrorNotRetried ==
    FatalStatus =>
        /\ lookup.responses = 1
        /\ lookup.attempt_number = lookup.failures + 1
        /\ lookup.result = "raise"
        /\ pc[Resolver] \in {"closing", "done"}
        /\ exc[Resolver] \in {"HTTPStatusError", "AttributeError", "Cancelled"}
        /\ ~Delivered(lookup.timestamp)
        /\ mainPc = "exited" =>
              \/ Outcome = "failure"
              \/ interrupted /\ exc[Resolver] = "Cancelled"

\* C8 witness: the pipeline has ended in failure on a 404 answer that came
\* after a transport failure of the same lookup
C8_Witness ==
    /\ FatalStatus
    /\ lookup.response[1].status = 404
    /\ lookup.failures = 1
    /\ exc[Resolver] = "HTTPStatusError"
    /\ mainPc = "exited"
    /\ Outcome = "failure"

\* What the claims say of a geo member: the point of two or three values,
\* else the midpoint of the box of four values (west, south, east, north) or
\* six (west, south, low, east, north, high), else nothing.
ClaimedGeo(geo) ==
    LET c == geo.coordinates
        b == geo.bbox
    IN  IF geo.kind # "dict" THEN Nothing
        ELSE IF c.kind \in {"list", "nested"} /\ Len(c.vals) \in {2, 3}
                /\ FloatOk(c.vals[1]) /\ FloatOk(c.vals[2])
        THEN Coordinates(2 * c.vals[1].v, 2 * c.vals[2].v)
        ELSE IF b.kind = "list" /\ Len(b.vals) \in {4, 6}
                /\ \A i \in 1..Len(b.vals) : b.vals[i].t = "num"
        THEN IF Len(b.vals) = 4
             THEN Coordinates(b.vals[1].v + b.vals[3].v, b.vals[2].v + b.vals[4].v)
             ELSE Coordinates(b.vals[1].v + b.vals[4].v, b.vals[2].v + b.vals[5].v)
        ELSE Nothing

RECURSIVE ClaimedFirstPlace(_)
ClaimedFirstPlace(places) ==
    IF places = <<>> THEN Nothing
    ELSE IF Head(places).kind = "dict" /\ ClaimedGeo(Head(places).geo).kind = "coords"
    THEN ClaimedGeo(Head(places).geo)
    ELSE ClaimedFirstPlace(Tail(places))

\* what the claims say of a line: its timestamp and coordinates, or nothing
ClaimedCoordinates(tweet_json) ==
    IF ClaimedGeo(tweet_json.data.geo).kind = "coords"
    THEN ClaimedGeo(tweet_json.data.geo)
    ELSE ClaimedFirstPlace(tweet_json.includes.places)

HasTimestamp(tweet_json) ==
    /\ tweet_json.json = "object"
    /\ tweet_json.data.kind = "dict"
    /\ tweet_json.data.created_at.kind = "iso"

Resolvable(tweet_json) ==
    HasTimestamp(tweet_json) /\ ClaimedCoordinates(tweet_json).kind = "coords"

\* C9: a line that yields no (timestamp, coordinates) is skipped: the
\* extractor sends nothing for it and goes on; no line ends the extractor
\* with an error.
C9_DiscardsAreSoft ==
    /\ exc[Extractor] # "Error"
    /\ \A i \in 1..Len(extraction) :
          ~Resolvable(extraction[i].line) => extraction[i].result.kind = "none"

\* C10: for a line with a timestamp, the coordinates sent are the point if
\* there is one, else the midpoint of the bounding box, else those of the
\* first place that resolves in the same way, and nothing is sent when there
\* is none of these.
C10_PreferenceOrder ==
    \A i \in 1..Len(extraction) :
        HasTimestamp(extraction[i].line) =>
            /\ extraction[i].result.kind = ClaimedCoordinates(extraction[i].line).kind
            /\ extraction[i].result.coordinates = ClaimedCoordinates(extraction[i].line)

\* the temp_f members the claim calls numeric or convertible to a decimal
Convertible(temp) == temp.t \in {"dec", "int", "numstr"}

\* C11: a lookup answered with success yields (timestamp, temperature) when
\* temp_f is a number or a string convertible to a decimal, and a soft skip,
\* never an exception, when the body or temp_f is missing, malformed or not
\* convertible.
C11_TemperatureParsed ==
    (lookup.response # <<>> /\ is_success(lookup.response[1].status)) =>
        IF lookup.response[1].body = "weather" /\ Convertible(lookup.response[1].temp)
        THEN lookup.result = "temperature"
        ELSE lookup.result = "none"

\* the two ends of each of the five channels async_main opens
ChannelEnds ==
    UNION {{SendEnd(c), ReceiveEnd(c)} :
             c \in {"tweet", "location", "temperature_to_file",
                    "temperature_to_average", "average"}}

\* some task has ended with an exception other than Cancelled
FatalError == \E t \in Tasks : pc[t] = "done" /\ exc[t] \notin {"none", "Cancelled"}

\* a task that is not over can take its last step, or async_main can leave
Terminating ==
    \/ mainPc = "exited"
    \/ ENABLED MainExit
    \/ \E t \in Tasks : ENABLED Exit(t)

\* C12: once a task has ended with a fatal error, no sibling is left blocked
\* (each is over or about to be), and when async_main has reported the
\* failure every channel end is closed, neither file is open and both clients
\* are closed.
C12_TeardownAfterFatalError ==
    FatalError =>
        /\ Terminating
        /\ \A t \in Tasks : pc[t] \in {"done", "closing", "raising"}
        /\ mainPc = "exited" =>
              /\ ChannelEnds \subseteq closed
              /\ \A s \in Sinks : unwind[s] = <<>>
              /\ \A c \in Clients : clientCloses[c] = 1

\* a step of the program: any step but the operator's interrupt
ProgramStep ==
    \/ SourceConnect
    \/ SourceRead
    \/ SendTweet
    \/ SendLocation
    \/ LookupAttempt
    \/ SendTemperatureToFile
    \/ SendTemperatureToAverage
    \/ SendAverage
    \/ \E s \in Sinks : SinkOpen(s)
    \/ \E s \in Sinks : SinkWrite(s)
    \/ \E t \in Tasks : Broken(t)
    \/ \E t \in Tasks : EndOfChannel(t)
    \/ \E t \in Tasks : Exit(t)
    \/ MainExit

\* the response of the stream has ended and the source has returned
SourceExhausted == pc[Source] = "done" /\ exc[Source] = "none"

\* C13: once a finite stream is exhausted, and nothing has failed or been
\* interrupted, the pipeline is never blocked: it has exited, with success, or
\* some stage can still take a step.
C13_FiniteSourceTerminates ==
    (SourceExhausted /\ ~interrupted /\ Outcome = "success") =>
        /\ mainPc = "exited" \/ ENABLED ProgramStep
        /\ mainPc = "exited" => \A t \in Tasks : pc[t] = "done" /\ exc[t] = "none"

\* the records delivered to a sink: the sends on its channel that completed
DeliveredTo(s) == IF s = TemperatureSink THEN rawIn ELSE avgOut

\* the lines those records make, one whole line each
LinesOf(records) ==
    [i \in 1..Len(records) |->
        [timestamp |-> records[i].timestamp, value |-> records[i].value, newline |-> TRUE]]

\* C14: after an interrupt, when the pipeline has exited, neither file is
\* open, every line is whole, and the lines of each file are exactly the
\* records delivered to its sink.
C14_InterruptKeepsDeliveredRecords ==
    (interrupted /\ mainPc = "exited") =>
        \A s \in Sinks :
            /\ unwind[s] = <<>>
            /\ \A i \in 1..Len(file[s]) : file[s][i].newline
            /\ file[s] = LinesOf(DeliveredTo(s))

\* s is the first Len(s) elements of t
IsPrefix(s, t) == Len(s) <= Len(t) /\ s = SubSeq(t, 1, Len(s))

\* C15: at every moment the lines of each file are the lines of the first
\* records delivered to its sink, one whole line each in the order of
\* delivery; only the record the sink is writing is not in the file yet.
C15_LinesArePrefixOfDeliveries ==
    \A s \in Sinks :
        /\ IsPrefix(file[s], LinesOf(DeliveredTo(s)))
        /\ Len(DeliveredTo(s)) - Len(file[s]) <= 1
        /\ pc[s] = "receive" => file[s] = LinesOf(DeliveredTo(s))
        /\ pc[s] = "write" =>
              /\ received[s] = <<DeliveredTo(s)[Len(DeliveredTo(s))]>>
              /\ Len(file[s]) = Len(DeliveredTo(s)) - 1

\* C15 witness: both files hold two lines, the second after the first
C15_Witness ==
    /\ Len(file[TemperatureSink]) = 2
    /\ Len(file[AverageSink]) = 2
    /\ file[AverageSink][2].timestamp = 2

\* a stage can make a request on a client or read from its stream
ClientInUse == ENABLED SourceConnect \/ ENABLED SourceRead \/ ENABLED LookupAttempt

\* C16: each client is closed at most once; when async_main has exited,
\* whether by an interrupt or by a failure, each has been closed exactly
\* once; and once a client is closed every stage is over, so none uses it.
C16_ClientsClosedOnce ==
    \A c \in Clients :
        /\ clientCloses[c] <= 1
        /\ mainPc = "exited" <=> clientCloses[c] = 1
        /\ clientCloses[c] = 1 => (\A t \in Tasks : pc[t] = "done") /\ ~ClientInUse

\* C16 witness: the pipeline has exited on a lookup's failure after both
\* clients were used, and both are closed
C16_Witness ==
    /\ mainPc = "exited"
    /\ Outcome = "failure"
    /\ exc[Resolver] = "RetryError"
    /\ stream.connections = 1
    /\ \A c \in Clients : clientCloses[c] = 1

\* ------------------------------------------------------------------------
\* A longer stream, for the records in flight along the path to the
\* temperature file: the stages while the nursery runs them, without the
\* steps that only end tasks
\* ------------------------------------------------------------------------

MaxFlow == 5

SourceReadOn == Read(MaxFlow)

NextFlow ==
    \/ SourceConnect
    \/ SourceReadOn
    \/ SendTweet
    \/ SendLocation
    \/ LookupAttempt
    \/ SendTemperatureToFile
    \/ SendTemperatureToAverage
    \/ SendAverage
    \/ \E s \in Sinks : SinkOpen(s)
    \/ \E s \in Sinks : SinkWrite(s)
    \/ \E t \in Tasks : Broken(t)

SpecFlow == Init /\ [][NextFlow]_vars

\* C17: at every moment the averager has emitted as many records as it has
\* received or one less, the one it is sending, and the i-th record emitted
\* carries the timestamp of the i-th record received.
C17_OneAverageForOneTemperature ==
    /\ Len(avgIn) - Len(avgOut) \in {0, 1}
    /\ \A i \in 1..Len(avgOut) : avgOut[i].timestamp = avgIn[i].timestamp
    /\ pc[Averager] = "receive" => Len(avgOut) = Len(avgIn)
    /\ pc[Averager] = "send" =>
          /\ Len(avgOut) = Len(avgIn) - 1
          /\ average # <<>>
          /\ average[1].timestamp = avgIn[Len(avgIn)].timestamp

\* C17 witness: two averages have been emitted for two temperatures
C17_Witness ==
    /\ Len(avgIn) = 2
    /\ Len(avgOut) = 2
    /\ avgOut[2].timestamp = avgIn[2].timestamp
    /\ avgOut[1].timestamp # avgOut[2].timestamp

\* C18: the resolver sends each record to the temperature sink first and to
\* the averager second, and takes no new record before both sends are over:
\* the averager's records are always a prefix of the temperature sink's and
\* at most one fewer, namely the record being sent to the averager.
C18_FanOutInFixedOrder ==
    /\ IsPrefix(avgIn, rawIn)
    /\ Len(rawIn) - Len(avgIn) <= 1
    /\ pc[Resolver] \in {"receive", "lookup", "send_to_file"} => rawIn = avgIn
    /\ pc[Resolver] = "send_to_file" => Timestamps(datum) \cap Timestamps(rawIn) = {}
    /\ pc[Resolver] = "send_to_average" => rawIn = avgIn \o datum

\* C18 witness: the second record has reached the temperature sink and is
\* on its way to the averager, which has the first
C18_Witness ==
    /\ pc[Resolver] = "send_to_average"
    /\ Len(rawIn) = 2
    /\ Len(avgIn) = 1
    /\ avgIn[1] = rawIn[1]

\* the rendezvous by which a task's pending send is received
Delivery(t) ==
    \/ t = Source /\ SendTweet
    \/ t = Extractor /\ SendLocation
    \/ t = Resolver /\ (SendTemperatureToFile \/ SendTemperatureToAverage)
    \/ t = Averager /\ SendAverage

\* a task's send meets a closed receive end: it can only fail
SendFails ==
    \A t \in Senders :
        (pc[t] \in SendingAt /\ ReceiveEnd(Output(t, pc[t])) \in closed) =>
            (ENABLED Broken(t)) /\ ~(ENABLED Delivery(t))

ToFileClosed == ReceiveEnd("temperature_to_file") \in closed
ToAverageClosed == ReceiveEnd("temperature_to_average") \in closed

InFlight == stream.yielded - discarded - Len(file[TemperatureSink])

\* C20: every stage holds at most one record that it has not delivered, the
\* source has read at most one line more than the extractor has received,
\* and the records read and neither discarded nor written to the
\* temperature file are at most 4, however many lines the stream has.
C20_Backpressure ==
    /\ Len(line) <= 1
    /\ Len(location) <= 1
    /\ Len(datum) <= 1
    /\ Len(average) <= 1
    /\ \A s \in Sinks : Len(received[s]) <= 1
    /\ stream.yielded - stream.sent \in {0, 1}
    /\ pc[Source] = "send" => (Len(line) = 1 /\ stream.yielded = stream.sent + 1)
    /\ InFlight \in 0..4

\* C20 witness: of five lines read one is done with and four are held, one
\* by each stage on the path to the temperature file
C20_Witness ==
    /\ stream.yielded = 5
    /\ InFlight = 4
    /\ pc[Source] = "send"
    /\ pc[Extractor] = "send"
    /\ pc[Resolver] = "lookup"
    /\ pc[TemperatureSink] = "write"
    /\ received[TemperatureSink][1].timestamp < lookup.timestamp
    /\ lookup.timestamp < location[1].timestamp

\* the stages from the feature extractor on
Downstream == Tasks \ {Source}

\* nothing has failed and nothing has been cancelled
NoFault ==
    /\ \A t \in Tasks : exc[t] = "none"
    /\ ~cancelled
    /\ ~interrupted

\* some stage from the extractor on can take a step
DownstreamStep ==
    \/ SendLocation
    \/ LookupAttempt
    \/ SendTemperatureToFile
    \/ SendTemperatureToAverage
    \/ SendAverage
    \/ \E s \in Sinks : SinkOpen(s)
    \/ \E s \in Sinks : SinkWrite(s)
    \/ \E t \in Downstream : Broken(t) \/ EndOfChannel(t) \/ Exit(t)

====
